---- MODULE Spec2Model ----
(***************************************************************************)
(* Model of the posture-face-compare backend (FastAPI + SQLAlchemy).       *)
(*                                                                         *)
(*   src/auth.py                 token service (generate/verify/validate)  *)
(*   src/query.py                find_by, _guard_db, get_header_token      *)
(*   src/CRUD/user/models.py     User and its bitwise permission methods   *)
(*   src/CRUD/user/services.py   the user endpoints                        *)
(*   src/CRUD/face/services.py   the face endpoints and the face cache     *)
(*                                                                         *)
(* Every endpoint is an `async def` without an await in its body, so one   *)
(* request runs from its first line to its response without another        *)
(* request of the same process interleaving: one action per endpoint.      *)
(* Requests that are pending at the same time are served one after the     *)
(* other with the clock standing still.                                    *)
(***************************************************************************)
EXTENDS Integers, Sequences, FiniteSets, TLC

(***************************************************************************)
(* Bounds of the model.                                                    *)
(***************************************************************************)
\* user ids the store ever hands out (uuid_generate_v4 never repeats one)
MaxUsers == 2
\* tokens the clients keep
MaxTokens == 1
\* clock advances
MaxTicks == 1
\* face ids the store ever hands out
MaxFaces == 2
\* how far outside [0,255] the permission operands are drawn
CapMargin == 2

(***************************************************************************)
(* Program constants.                                                      *)
(***************************************************************************)
NO_PERMISSIONS == 0
READ == 1
WRITE == 2
DELETE == 4
UPDATE == 8
RESERVE_1 == 16
RESERVE_2 == 32
DELETE_USERS == 64
GRANT_PERMISSION == 128
\* the range test of check/grant/revoke_permission: permission > 255
PERMISSION_MAX == 255
\* Column default of User.permissions
DEFAULT_PERMISSIONS == READ + WRITE + DELETE + UPDATE
CACHE_TTL == 30
\* timedelta(days=30), in seconds
TOKEN_LIFETIME == 30 * 86400

HTTP_200 == 200
HTTP_400 == 400
HTTP_401 == 401
HTTP_403 == 403
HTTP_404 == 404
HTTP_500 == 500

(***************************************************************************)
(* Python's integer operators & | ~ on unbounded two's-complement ints.    *)
(***************************************************************************)
RECURSIVE BitAnd(_, _)
BitAnd(a, b) ==
    IF a = 0 \/ b = 0 THEN 0
    ELSE IF a = -1 THEN b
    ELSE IF b = -1 THEN a
    ELSE (a % 2) * (b % 2) + 2 * BitAnd(a \div 2, b \div 2)

BitOr(a, b) == a + b - BitAnd(a, b)

BitNot(a) == (-a) - 1

(***************************************************************************)
(* CRUD/user/models.py: the permission methods of User.  A method that     *)
(* raises leaves self.permissions as it was.                               *)
(***************************************************************************)
\* a check_permission that asks for all the bits of the operand
check_permission_all(permissions, permission) ==
    IF permission < 0 \/ permission > PERMISSION_MAX
    THEN "InvalidPermission"
    ELSE IF BitAnd(permissions, permission) = permission THEN "True" ELSE "False"

\* User.check_permission: "True" or "False", or the ValueError it raises
check_permission(permissions, permission) ==
    IF permission < 0 \/ permission > PERMISSION_MAX
    THEN "InvalidPermission"
    ELSE IF BitAnd(permissions, permission) # 0 THEN "True" ELSE "False"

\* a grant_permission that assigns the operand instead of or-ing it
grant_permission_assign(permissions, permission) ==
    IF permission < 0 \/ permission > PERMISSION_MAX
    THEN [raised |-> "InvalidPermission", permissions |-> permissions]
    ELSE IF BitAnd(permission, permission - 1) # 0
    THEN [raised |-> "MultiplePermission", permissions |-> permissions]
    ELSE [raised |-> "none", permissions |-> permission]

\* a grant_permission that adds the operand instead of or-ing it
grant_permission_add(permissions, permission) ==
    IF permission < 0 \/ permission > PERMISSION_MAX
    THEN [raised |-> "InvalidPermission", permissions |-> permissions]
    ELSE IF BitAnd(permission, permission - 1) # 0
    THEN [raised |-> "MultiplePermission", permissions |-> permissions]
    ELSE [raised |-> "none", permissions |-> permissions + permission]

\* a grant_permission whose range test has the upper limit only
grant_permission_upper(permissions, permission) ==
    IF permission > PERMISSION_MAX
    THEN [raised |-> "InvalidPermission", permissions |-> permissions]
    ELSE IF BitAnd(permission, permission - 1) # 0
    THEN [raised |-> "MultiplePermission", permissions |-> permissions]
    ELSE [raised |-> "none", permissions |-> BitOr(permissions, permission)]

\* User.grant_permission: the ValueError raised ("none" when it returns), and
\* self.permissions afterwards
grant_permission(permissions, permission) ==
    IF permission < 0 \/ permission > PERMISSION_MAX
    THEN [raised |-> "InvalidPermission", permissions |-> permissions]
    ELSE IF BitAnd(permission, permission - 1) # 0
    THEN [raised |-> "MultiplePermission", permissions |-> permissions]
    ELSE [raised |-> "none", permissions |-> BitOr(permissions, permission)]

\* a revoke_permission that subtracts the operand instead of masking it
revoke_permission_sub(permissions, permission) ==
    IF permission < 0 \/ permission > PERMISSION_MAX
    THEN [raised |-> "InvalidPermission", permissions |-> permissions]
    ELSE IF BitAnd(permission, permission - 1) # 0
    THEN [raised |-> "MultiplePermission", permissions |-> permissions]
    ELSE [raised |-> "none", permissions |-> permissions - permission]

\* User.revoke_permission
revoke_permission(permissions, permission) ==
    IF permission < 0 \/ permission > PERMISSION_MAX
    THEN [raised |-> "InvalidPermission", permissions |-> permissions]
    ELSE IF BitAnd(permission, permission - 1) # 0
    THEN [raised |-> "MultiplePermission", permissions |-> permissions]
    ELSE [raised |-> "none",
          permissions |-> BitAnd(permissions, BitNot(permission))]

(***************************************************************************)
(* State.                                                                  *)
(***************************************************************************)
VARIABLES
    users,              \* table "users": user id -> row (is_verified and
                        \* created_at, which no guard reads, are left open)
    next_user_id,       \* the next id uuid_generate_v4 hands out
    faces,              \* table "faces": the rows, oldest uploaded_at first
                        \* (the blob, which nothing reads back, is left out)
    next_face_id,       \* the next face id
    cached_faces,       \* face/services.py global: [(description, feature)]
    cache_settle_time,  \* face/services.py global
    now,                \* time.time(), in seconds
    utc_offset,         \* the process's local time zone (datetime.now() is local)
    issued,             \* the tokens the service has signed and clients hold
    last,               \* the request served by the last step, and its response
    cache_log,          \* history of the cache: build time, writes since
    pm,                 \* a User object under a direct call of its methods
    inflight,           \* requests on their way through the worker: waiting,
                        \* taken by the worker, answered
    process             \* the service process: the SECRET_KEY of its
                        \* environment and how far its start-up has come

vars == <<users, next_user_id, faces, next_face_id, cached_faces,
          cache_settle_time, now, utc_offset, issued, last, cache_log, pm,
          inflight, process>>

UserIds == 1..MaxUsers
FaceIds == 1..MaxFaces

Emails == {"a@x", "b@x"}
RESTRICTED_USER_NAMES == {"admin", "root", "guest", "null", "nil", "undefined",
                          "postgres", "localhost"}
Names == {"ann", "admin"}
Passwords == {"pw", "other"}

\* -np.inf
NegInf == "-inf"

\* local zones the process may run in: UTC and UTC-5
UtcOffsets == {0, -5 * 3600}

(***************************************************************************)
(* auth.py: tokens.  A token string is "" (empty), some text that is no    *)
(* JWT, or a JWT with its payload (user_id, exp) and a signature that      *)
(* either is the one SECRET_KEY gives or is not.                           *)
(***************************************************************************)
EmptyToken == [kind |-> "empty", sub |-> 0, exp |-> 0, sig |-> "none"]
GarbageToken == [kind |-> "garbage", sub |-> 0, exp |-> 0, sig |-> "none"]
ForgedToken(s) == [kind |-> "jwt", sub |-> s, exp |-> 3 * TOKEN_LIFETIME, sig |-> "bad"]

\* what a client can send: nothing, junk, a token signed with another key,
\* or a token the service issued
Presentable(user_id) == {EmptyToken, GarbageToken, ForgedToken(user_id)} \cup issued

\* generate_jwt: "exp" is datetime.now() + 30 days, a naive local time, which
\* jwt.encode converts with timegm(exp.utctimetuple()), that is, as if it
\* were UTC
generate_jwt(user_id, t, offset) ==
    [kind |-> "jwt", sub |-> user_id, exp |-> t + offset + TOKEN_LIFETIME,
     sig |-> "good"]

\* verify_jwt: the payload, or None; jwt.decode raises for a bad format or
\* signature (InvalidTokenError) and once exp <= now (ExpiredSignatureError)
verify_jwt(token, t) ==
    IF token.kind = "jwt" /\ token.sig = "good" /\ token.exp > t
    THEN [none |-> FALSE, user_id |-> token.sub]
    ELSE [none |-> TRUE, user_id |-> 0]

\* a validate_user that answers a token of another subject with 401
validate_user_unauthenticated(user_id, token, t) ==
    IF token.kind = "empty" THEN HTTP_401
    ELSE LET payload == verify_jwt(token, t) IN
         IF payload.none THEN HTTP_401
         ELSE IF payload.user_id = 0 THEN HTTP_401
         ELSE IF user_id # payload.user_id THEN HTTP_401
         ELSE HTTP_200

\* validate_user: the status it raises, or 200 when it returns True
validate_user(user_id, token, t) ==
    IF token.kind = "empty" THEN HTTP_401
    ELSE LET payload == verify_jwt(token, t) IN
         IF payload.none THEN HTTP_401
         ELSE IF payload.user_id = 0 THEN HTTP_401
         ELSE IF user_id # payload.user_id THEN HTTP_403
         ELSE HTTP_200

(***************************************************************************)
(* query.py                                                                *)
(***************************************************************************)
\* get_header_token: the Authorization header is "", "Basic ..." or
\* "Bearer <token>"; the status raised, or 200 and the token
Headers(user_id) == {[scheme |-> "", token |-> EmptyToken],
            [scheme |-> "Basic", token |-> GarbageToken]}
               \cup {[scheme |-> "Bearer", token |-> t] : t \in Presentable(user_id)}

get_header_token(authorization) ==
    IF authorization.scheme = "" THEN HTTP_401
    ELSE IF authorization.scheme # "Bearer" THEN HTTP_401
    ELSE HTTP_200

\* find_by(orm=User, attr="id", val=user_id): 404 unless the row exists
find_by_user(table, user_id) ==
    IF user_id \in DOMAIN table THEN HTTP_200 ELSE HTTP_404

\* a _guard_db that looks the caller up in the store before it validates
\* the token
_guard_db_store_first(table, user_id, token, permission, t) ==
    IF find_by_user(table, user_id) # HTTP_200 THEN HTTP_404
    ELSE LET v == validate_user(user_id, token, t) IN
         IF v # HTTP_200 THEN v
         ELSE LET c == check_permission(table[user_id].permissions, permission) IN
              IF c = "InvalidPermission" THEN HTTP_500
              ELSE IF c = "False" THEN HTTP_403
              ELSE HTTP_200

\* a _guard_db without the permission check of lines 71-73
_guard_db_unchecked(table, user_id, token, permission, t) ==
    LET v == validate_user(user_id, token, t) IN
    IF v # HTTP_200 THEN v
    ELSE IF find_by_user(table, user_id) # HTTP_200 THEN HTTP_404
    ELSE HTTP_200

\* _guard_db(auth, token, permission, db): the status raised, or 200
_guard_db(table, user_id, token, permission, t) ==
    LET v == validate_user(user_id, token, t) IN
    IF v # HTTP_200 THEN v
    ELSE IF find_by_user(table, user_id) # HTTP_200 THEN HTTP_404
    ELSE LET c == check_permission(table[user_id].permissions, permission) IN
         IF c = "InvalidPermission" THEN HTTP_500
         ELSE IF c = "False" THEN HTTP_403
         ELSE HTTP_200

(***************************************************************************)
(* The response of a request, as the step that served it records it:       *)
(*   hdr     the scheme of the Authorization header, "-" without one       *)
(*   auth    what validate_user gave in this request, 0 if it was not run  *)
(*   guard   what _guard_db gave in this request, 0 if it was not called   *)
(*   status  the HTTP status of the response                               *)
(*   reads   how often the request ran the query of line 263 of            *)
(*           face/services.py, db.query(Face).all()                        *)
(*   returned  the value the call of _guard_db evaluated to, if it         *)
(*           returned                                                      *)
(*   blob    the blob whose face the returned list ranks                   *)
(*   desc_scores  the list compare_face returns (line 279)                 *)
(***************************************************************************)
NoBlob == [b64 |-> FALSE, ext |-> "-", feature |-> 0]

\* a Python value, as far as its type and, for a row, its primary key
NoValue == [type |-> "-", id |-> 0]

\* a _guard_db that returns db_uploader, the row of line 65
_guard_db_return_row(user_id) == [type |-> "User", id |-> user_id]

\* line 75 of query.py: return True
_guard_db_return(user_id) == [type |-> "bool", id |-> 1]

\* the body of a response that lists no faces
NoPage == [num_total |-> 0, num_this_page |-> 0, faces |-> << >>]

Resp(op, hdr, user_id, token, auth, guard, status) ==
    [op |-> op, hdr |-> hdr, user_id |-> user_id, token |-> token,
     auth |-> auth, guard |-> guard, status |-> status, reads |-> 0,
     returned |-> IF guard = HTTP_200 THEN _guard_db_return(user_id) ELSE NoValue,
     blob |-> NoBlob, desc_scores |-> << >>, page |-> NoPage]

Idle == Resp("-", "-", 0, EmptyToken, 0, 0, 0)

\* pwd_context.hash / pwd_context.verify
Hash(password) == <<"bcrypt", password>>
Verify(password, password_hash) == password_hash = Hash(password)

\* the client keeps the token of a response, up to MaxTokens of them
Keep(token) ==
    IF Cardinality(issued) < MaxTokens THEN issued \cup {token} ELSE issued

\* a row put into or taken out of table "users"
Insert(table, id, row) == [i \in DOMAIN table \cup {id} |-> IF i = id THEN row ELSE table[i]]
Delete(table, id) == [i \in DOMAIN table \ {id} |-> table[i]]

frame_faces == UNCHANGED <<faces, next_face_id, cached_faces, cache_settle_time, cache_log>>
\* a request is taken when the response of the one before has gone out
frame_env == last = Idle /\ UNCHANGED <<now, utc_offset, pm, inflight, process>>

(***************************************************************************)
(* CRUD/user/services.py                                                   *)
(***************************************************************************)
\* POST /register/
register_user(email, password, name) ==
    /\ frame_faces /\ frame_env
    /\ IF \E i \in DOMAIN users : users[i].email = email
       THEN /\ last' = Resp("register_user", "-", 0, EmptyToken, 0, 0, HTTP_400)
            /\ UNCHANGED <<users, next_user_id, issued>>
       ELSE IF name \in RESTRICTED_USER_NAMES
       THEN /\ last' = Resp("register_user", "-", 0, EmptyToken, 0, 0, HTTP_400)
            /\ UNCHANGED <<users, next_user_id, issued>>
       ELSE /\ next_user_id <= MaxUsers
            /\ users' = Insert(users, next_user_id,
                               [email |-> email, name |-> name,
                                password_hash |-> Hash(password),
                                permissions |-> DEFAULT_PERMISSIONS])
            /\ next_user_id' = next_user_id + 1
            /\ LET token == generate_jwt(next_user_id, now, utc_offset) IN
               /\ issued' = Keep(token)
               /\ last' = Resp("register_user", "-", next_user_id, token, 0, 0, HTTP_200)

\* GET /verify_email/ : is_verified is whether the row's email is verified
\* already; the row's is_verified, which the model leaves open, becomes true
verify_email(user_id, token, is_verified) ==
    /\ frame_faces /\ frame_env
    /\ UNCHANGED <<users, next_user_id, issued>>
    /\ LET v == validate_user(user_id, token, now) IN
       IF v # HTTP_200
       THEN last' = Resp("verify_email", "-", user_id, token, v, 0, v)
       ELSE IF find_by_user(users, user_id) # HTTP_200
       THEN last' = Resp("verify_email", "-", user_id, token, v, 0, HTTP_404)
       ELSE IF is_verified
       THEN last' = Resp("verify_email", "-", user_id, token, v, 0, HTTP_400)
       ELSE last' = Resp("verify_email", "-", user_id, token, v, 0, HTTP_200)

\* POST /verify_email_super/ : User has no method verify_email, so the call
\* on line 117 raises AttributeError before the commit
verify_email_super(authorization, user_id, verify_user_id) ==
    /\ frame_faces /\ frame_env
    /\ UNCHANGED <<users, next_user_id, issued>>
    /\ LET token == authorization.token
           hdr == authorization.scheme IN
       IF get_header_token(authorization) # HTTP_200
       THEN last' = Resp("verify_email_super", hdr, user_id, token, 0, 0, HTTP_401)
       ELSE LET g == _guard_db(users, user_id, token, GRANT_PERMISSION, now)
                v == validate_user(user_id, token, now) IN
            IF g # HTTP_200
            THEN last' = Resp("verify_email_super", hdr, user_id, token, v, g, g)
            ELSE IF find_by_user(users, verify_user_id) # HTTP_200
            THEN last' = Resp("verify_email_super", hdr, user_id, token, v, g, HTTP_404)
            ELSE last' = Resp("verify_email_super", hdr, user_id, token, v, g, HTTP_500)

\* POST /login/ : by email or by name; .first() of the rows that match;
\* is_verified is whether the row's email is verified
login_user(attr, value, password, is_verified) ==
    /\ frame_faces /\ frame_env
    /\ UNCHANGED <<users, next_user_id>>
    /\ LET matches == {i \in DOMAIN users :
                          IF attr = "email" THEN users[i].email = value
                                            ELSE users[i].name = value} IN
       IF matches = {}
       THEN /\ last' = Resp("login_user", "-", 0, EmptyToken, 0, 0, HTTP_400)
            /\ UNCHANGED issued
       ELSE \E i \in matches :
               IF ~Verify(password, users[i].password_hash)
               THEN /\ last' = Resp("login_user", "-", 0, EmptyToken, 0, 0, HTTP_400)
                    /\ UNCHANGED issued
               ELSE IF ~is_verified
               THEN /\ last' = Resp("login_user", "-", 0, EmptyToken, 0, 0, HTTP_403)
                    /\ UNCHANGED issued
               ELSE LET token == generate_jwt(i, now, utc_offset) IN
                    /\ issued' = Keep(token)
                    /\ last' = Resp("login_user", "-", i, token, 0, 0, HTTP_200)

\* POST /delete_account/
delete_user(user_id, token) ==
    /\ frame_faces /\ frame_env
    /\ UNCHANGED <<next_user_id, issued>>
    /\ LET v == validate_user(user_id, token, now) IN
       IF v # HTTP_200
       THEN /\ last' = Resp("delete_user", "-", user_id, token, v, 0, v)
            /\ UNCHANGED users
       ELSE IF find_by_user(users, user_id) # HTTP_200
       THEN /\ last' = Resp("delete_user", "-", user_id, token, v, 0, HTTP_404)
            /\ UNCHANGED users
       ELSE /\ users' = Delete(users, user_id)
            /\ last' = Resp("delete_user", "-", user_id, token, v, 0, HTTP_200)

\* POST /change_password/ : User has no method change_password, so the call
\* on line 208 raises AttributeError before the commit
change_password(authorization, user_id, new_password) ==
    /\ frame_faces /\ frame_env
    /\ UNCHANGED <<users, next_user_id, issued>>
    /\ LET token == authorization.token
           hdr == authorization.scheme IN
       IF get_header_token(authorization) # HTTP_200
       THEN last' = Resp("change_password", hdr, user_id, token, 0, 0, HTTP_401)
       ELSE LET v == validate_user(user_id, token, now) IN
            IF v # HTTP_200
            THEN last' = Resp("change_password", hdr, user_id, token, v, 0, v)
            ELSE IF find_by_user(users, user_id) # HTTP_200
            THEN last' = Resp("change_password", hdr, user_id, token, v, 0, HTTP_404)
            ELSE last' = Resp("change_password", hdr, user_id, token, v, 0, HTTP_500)

\* POST /get_user/
get_user(authorization, user_id) ==
    /\ frame_faces /\ frame_env
    /\ UNCHANGED <<users, next_user_id, issued>>
    /\ LET token == authorization.token
           hdr == authorization.scheme IN
       IF get_header_token(authorization) # HTTP_200
       THEN last' = Resp("get_user", hdr, user_id, token, 0, 0, HTTP_401)
       ELSE LET v == validate_user(user_id, token, now) IN
            IF v # HTTP_200
            THEN last' = Resp("get_user", hdr, user_id, token, v, 0, v)
            ELSE IF find_by_user(users, user_id) # HTTP_200
            THEN last' = Resp("get_user", hdr, user_id, token, v, 0, HTTP_404)
            ELSE last' = Resp("get_user", hdr, user_id, token, v, 0, HTTP_200)

\* POST /get_users/
get_users(authorization, user_id, range_from, range_to) ==
    /\ frame_faces /\ frame_env
    /\ UNCHANGED <<users, next_user_id, issued>>
    /\ LET token == authorization.token
           hdr == authorization.scheme IN
       IF get_header_token(authorization) # HTTP_200
       THEN last' = Resp("get_users", hdr, user_id, token, 0, 0, HTTP_401)
       ELSE LET g == _guard_db(users, user_id, token, GRANT_PERMISSION, now)
                v == validate_user(user_id, token, now) IN
            IF g # HTTP_200
            THEN last' = Resp("get_users", hdr, user_id, token, v, g, g)
            ELSE IF range_to - range_from + 1 < 1
            THEN last' = Resp("get_users", hdr, user_id, token, v, g, HTTP_400)
            ELSE last' = Resp("get_users", hdr, user_id, token, v, g, HTTP_200)

\* POST /find_users/
find_users(authorization, user_id) ==
    /\ frame_faces /\ frame_env
    /\ UNCHANGED <<users, next_user_id, issued>>
    /\ LET token == authorization.token
           hdr == authorization.scheme IN
       IF get_header_token(authorization) # HTTP_200
       THEN last' = Resp("find_users", hdr, user_id, token, 0, 0, HTTP_401)
       ELSE LET g == _guard_db(users, user_id, token, READ, now)
                v == validate_user(user_id, token, now) IN
            last' = Resp("find_users", hdr, user_id, token, v, g, g)

\* POST /edit_permission/ : a ValueError of grant/revoke_permission is not
\* caught, so the request ends 500 before the commit
edit_permission(authorization, user_id, grant, requester_user_id, permission) ==
    /\ frame_faces /\ frame_env
    /\ UNCHANGED <<next_user_id, issued>>
    /\ LET token == authorization.token
           hdr == authorization.scheme IN
       IF get_header_token(authorization) # HTTP_200
       THEN /\ last' = Resp("edit_permission", hdr, user_id, token, 0, 0, HTTP_401)
            /\ UNCHANGED users
       ELSE LET g == _guard_db(users, user_id, token, GRANT_PERMISSION, now)
                v == validate_user(user_id, token, now) IN
            IF g # HTTP_200
            THEN /\ last' = Resp("edit_permission", hdr, user_id, token, v, g, g)
                 /\ UNCHANGED users
            ELSE IF find_by_user(users, requester_user_id) # HTTP_200
            THEN /\ last' = Resp("edit_permission", hdr, user_id, token, v, g, HTTP_404)
                 /\ UNCHANGED users
            ELSE LET r == IF grant
                          THEN grant_permission(users[requester_user_id].permissions, permission)
                          ELSE revoke_permission(users[requester_user_id].permissions, permission) IN
                 IF r.raised # "none"
                 THEN /\ last' = Resp("edit_permission", hdr, user_id, token, v, g, HTTP_500)
                      /\ UNCHANGED users
                 ELSE /\ users' = [users EXCEPT ![requester_user_id].permissions = r.permissions]
                      /\ last' = Resp("edit_permission", hdr, user_id, token, v, g, HTTP_200)

(***************************************************************************)
(* CRUD/face/services.py                                                   *)
(*                                                                         *)
(* A blob is base64 text or not, decodes to a file of some type, and holds *)
(* a face with some feature vector or no face (feature 0 stands for the    *)
(* None of retrieve_face_feature).  Feature vectors are points 1, 2, ...   *)
(* on a line.                                                              *)
(***************************************************************************)
ALLOWED_EXTENSIONS == {"png", "jpg", "jpeg"}
Features == {1, 2}
Descriptions == {"alice", "bob"}
Blobs == {[b64 |-> FALSE, ext |-> "png", feature |-> 0],
          [b64 |-> TRUE, ext |-> "gif", feature |-> 1],
          [b64 |-> TRUE, ext |-> "png", feature |-> 0]}
             \cup {[b64 |-> TRUE, ext |-> "png", feature |-> f] : f \in Features}

\* _check_file_type: the status raised, or 200
_check_file_type(blob) ==
    IF ~blob.b64 THEN HTTP_400
    ELSE IF blob.ext \notin ALLOWED_EXTENSIONS THEN HTTP_400
    ELSE HTTP_200

\* retrieve_face_feature: the feature of the first face, 0 for None
retrieve_face_feature(blob) == blob.feature

\* the orders in which a query without ORDER BY may return the rows
Orders(rows) ==
    {[i \in 1..Len(rows) |-> rows[p[i]]] :
        p \in {q \in [1..Len(rows) -> 1..Len(rows)] :
                  \A i, j \in 1..Len(rows) : i # j => q[i] # q[j]}}

\* the rows without the one of this id
Without(rows, face_id) == SelectSeq(rows, LAMBDA r : r.id # face_id)

\* a projection of the first row only
Project_first(db_faces) ==
    [i \in 1..(IF Len(db_faces) > 1 THEN 1 ELSE Len(db_faces)) |->
        <<db_faces[i].description, db_faces[i].feature>>]

\* line 264: [(db_face.description, db_face.feature) for db_face in db_faces]
Project(db_faces) ==
    [i \in 1..Len(db_faces) |-> <<db_faces[i].description, db_faces[i].feature>>]

\* np.finfo(np.float32).eps is 2^-23: its inverse
FLOAT32_EPS_INV == 8388608

\* np.linalg.norm(f1 - f2), for features that are points on a line
norm(f1, f2) == IF f1 >= f2 THEN f1 - f2 ELSE f2 - f1

\* compare_faces: 1 / (norm + eps), as the exact fraction
\* FLOAT32_EPS_INV / (norm * FLOAT32_EPS_INV + 1)
compare_faces(feature_1, feature_2) ==
    [num |-> FLOAT32_EPS_INV,
     den |-> norm(feature_1, feature_2) * FLOAT32_EPS_INV + 1]

\* a >= b for two scores: fractions of the same positive numerator
score_ge(a, b) == a.den <= b.den

\* lines 269-272 with an entry for the first cached face only
desc_scores_first(face_feature, cache) ==
    [i \in 1..(IF Len(cache) > 1 THEN 1 ELSE Len(cache)) |->
        [description |-> cache[i][1],
         score |-> compare_faces(face_feature, cache[i][2])]]

\* lines 269-272 with an entry for the uploaded face itself at the end
desc_scores_probe(face_feature, cache) ==
    [i \in 1..(Len(cache) + 1) |->
        IF i <= Len(cache)
        THEN [description |-> cache[i][1],
              score |-> compare_faces(face_feature, cache[i][2])]
        ELSE [description |-> "probe",
              score |-> compare_faces(face_feature, face_feature)]]

\* lines 269-272: one entry for each cached face, in the cache's order
desc_scores(face_feature, cache) ==
    [i \in 1..Len(cache) |->
        [description |-> cache[i][1],
         score |-> compare_faces(face_feature, cache[i][2])]]

\* the entry goes behind the entries that score at least as much
place(ranked, obj) ==
    LET k == Cardinality({i \in 1..Len(ranked) : score_ge(ranked[i].score, obj.score)})
    IN SubSeq(ranked, 1, k) \o <<obj>> \o SubSeq(ranked, k + 1, Len(ranked))

\* the entry goes before the entries that score at most as much
place_before(ranked, obj) ==
    LET k == Cardinality({i \in 1..Len(ranked) :
                             ~score_ge(obj.score, ranked[i].score)})
    IN SubSeq(ranked, 1, k) \o <<obj>> \o SubSeq(ranked, k + 1, Len(ranked))

RECURSIVE sorted_reverse_unstable(_)
\* a descending sort that turns the order of equal scores around
sorted_reverse_unstable(objs) ==
    IF objs = << >> THEN << >>
    ELSE place_before(sorted_reverse_unstable(SubSeq(objs, 1, Len(objs) - 1)),
                      objs[Len(objs)])

RECURSIVE sorted_reverse(_)
\* line 274: sorted(desc_scores, key=score, reverse=True); Python's sort is
\* stable, with reverse=True too: equal scores keep the order of the input
sorted_reverse(objs) ==
    IF objs = << >> THEN << >>
    ELSE place(sorted_reverse(SubSeq(objs, 1, Len(objs) - 1)), objs[Len(objs)])

\* line 262: time.time() - cache_settle_time > CACHE_TTL
Expired(t, settle) ==
    IF settle = NegInf THEN TRUE ELSE t - settle > CACHE_TTL

\* the face endpoints call _guard_db(auth=..., permission=..., db=db), without
\* the required parameter `token` of query.py line 53: binding the call
\* raises TypeError and the request ends 500
guard_without_token == HTTP_500

\* the history of the cache, kept beside it: when the snapshot in it was
\* built, and whether a face was written since
face_written == cache_log' = [cache_log EXCEPT !.written = TRUE]

\* POST /upload_face/ from the guard's outcome g on
upload_face_body(g, user_id, token, blob, description) ==
    /\ frame_env
    /\ UNCHANGED <<users, next_user_id, issued, cached_faces, cache_settle_time>>
    /\ IF g # HTTP_200
       THEN /\ last' = Resp("upload_face", "-", user_id, token, 0, g, g)
            /\ UNCHANGED <<faces, next_face_id, cache_log>>
       ELSE IF _check_file_type(blob) # HTTP_200
       THEN /\ last' = Resp("upload_face", "-", user_id, token, 0, g, HTTP_400)
            /\ UNCHANGED <<faces, next_face_id, cache_log>>
       ELSE IF retrieve_face_feature(blob) = 0
       THEN /\ last' = Resp("upload_face", "-", user_id, token, 0, g, HTTP_400)
            /\ UNCHANGED <<faces, next_face_id, cache_log>>
       ELSE /\ next_face_id <= MaxFaces
            /\ faces' = Append(faces, [id |-> next_face_id, uploaded_by |-> user_id,
                                        description |-> description,
                                        feature |-> retrieve_face_feature(blob)])
            /\ next_face_id' = next_face_id + 1
            /\ face_written
            /\ last' = Resp("upload_face", "-", user_id, token, 0, g, HTTP_200)

\* line 184, order_by(desc(Face.uploaded_at)): the table keeps the faces in
\* the order of their upload, so the newest is the last row
order_by_desc_uploaded_at(db_faces) ==
    [i \in 1..Len(db_faces) |-> db_faces[Len(db_faces) + 1 - i]]

\* line 184, .offset(_offset).limit(_limit)
offset_limit(rows, _offset, _limit) ==
    SubSeq(rows, _offset + 1,
           IF _offset + _limit < Len(rows) THEN _offset + _limit ELSE Len(rows))

\* POST /get_faces/ from the guard's outcome g on
get_faces_body(g, user_id, token, range_from, range_to) ==
    /\ frame_env /\ frame_faces
    /\ UNCHANGED <<users, next_user_id, issued>>
    /\ IF g # HTTP_200
       THEN last' = Resp("get_faces", "-", user_id, token, 0, g, g)
       ELSE LET _limit == range_to - range_from + 1
                _offset == range_from
                total_num == Len(faces)
                db_faces == offset_limit(order_by_desc_uploaded_at(faces),
                                         _offset, _limit)
            IN IF _limit < 1
               THEN last' = Resp("get_faces", "-", user_id, token, 0, g, HTTP_400)
               ELSE last' = [Resp("get_faces", "-", user_id, token, 0, g, HTTP_200)
                                EXCEPT !.page = [num_total |-> total_num,
                                                 num_this_page |-> Len(db_faces),
                                                 faces |-> db_faces]]

\* an update that takes the face over for another owner as well
relabel_owner(face_to_update, description) ==
    [face_to_update EXCEPT !.description = description, !.uploaded_by = 0]

\* line 206: face_to_update.description = face_update.description
relabel(face_to_update, description) ==
    [face_to_update EXCEPT !.description = description]

\* POST /update_face/ from the guard's outcome g on
update_face_body(g, user_id, token, face_id, description) ==
    /\ frame_env
    /\ UNCHANGED <<users, next_user_id, issued, next_face_id, cached_faces,
                   cache_settle_time>>
    /\ IF g # HTTP_200
       THEN /\ last' = Resp("update_face", "-", user_id, token, 0, g, g)
            /\ UNCHANGED <<faces, cache_log>>
       ELSE IF ~\E i \in DOMAIN faces : faces[i].id = face_id
       THEN /\ last' = Resp("update_face", "-", user_id, token, 0, g, HTTP_404)
            /\ UNCHANGED <<faces, cache_log>>
       ELSE /\ faces' = [i \in DOMAIN faces |->
                            IF faces[i].id = face_id
                            THEN relabel(faces[i], description)
                            ELSE faces[i]]
            /\ face_written
            /\ last' = Resp("update_face", "-", user_id, token, 0, g, HTTP_200)

\* POST /delete_face/ from the guard's outcome g on
delete_face_body(g, user_id, token, face_id) ==
    /\ frame_env
    /\ UNCHANGED <<users, next_user_id, issued, next_face_id, cached_faces,
                   cache_settle_time>>
    /\ IF g # HTTP_200
       THEN /\ last' = Resp("delete_face", "-", user_id, token, 0, g, g)
            /\ UNCHANGED <<faces, cache_log>>
       ELSE IF ~\E i \in DOMAIN faces : faces[i].id = face_id
       THEN /\ last' = Resp("delete_face", "-", user_id, token, 0, g, HTTP_404)
            /\ UNCHANGED <<faces, cache_log>>
       ELSE /\ faces' = Without(faces, face_id)
            /\ face_written
            /\ last' = Resp("delete_face", "-", user_id, token, 0, g, HTTP_200)

\* POST /compare_face/ from the guard's outcome g on; db_ok is whether the
\* store answers the query of line 263 (when it raises, the request ends 500
\* before line 264 assigns)
compare_face_body(g, user_id, token, blob, db_ok) ==
    /\ frame_env
    /\ UNCHANGED <<users, next_user_id, issued, faces, next_face_id,
                   cache_settle_time>>
    /\ LET R(status) == Resp("compare_face", "-", user_id, token, 0, g, status)
           face_feature == retrieve_face_feature(blob) IN
       IF g # HTTP_200
       THEN /\ last' = R(g)
            /\ UNCHANGED <<cached_faces, cache_log>>
       ELSE IF _check_file_type(blob) # HTTP_200
       THEN /\ last' = R(HTTP_400)
            /\ UNCHANGED <<cached_faces, cache_log>>
       ELSE IF face_feature = 0
       THEN /\ last' = R(HTTP_400)
            /\ UNCHANGED <<cached_faces, cache_log>>
       ELSE IF Len(cached_faces) = 0 \/ Expired(now, cache_settle_time)
       THEN IF ~db_ok
            THEN /\ last' = [R(HTTP_500) EXCEPT !.reads = 1]
                 /\ UNCHANGED <<cached_faces, cache_log>>
            ELSE \E db_faces \in Orders(faces) :
                    /\ cached_faces' = Project(db_faces)
                    /\ cache_log' = [built_at |-> now, written |-> FALSE]
                    /\ last' = [R(HTTP_200) EXCEPT
                                   !.reads = 1,
                                   !.blob = blob,
                                   !.desc_scores = sorted_reverse(
                                       desc_scores(face_feature, Project(db_faces)))]
       ELSE /\ last' = [R(HTTP_200) EXCEPT
                           !.blob = blob,
                           !.desc_scores = sorted_reverse(
                               desc_scores(face_feature, cached_faces))]
            /\ UNCHANGED <<cached_faces, cache_log>>

\* POST /find_faces/ from the guard's outcome g on: FacesFindByDesc has a
\* field `query` and no `description`, so line 298 raises AttributeError
find_faces_body(g, user_id, token) ==
    /\ frame_env /\ frame_faces
    /\ UNCHANGED <<users, next_user_id, issued>>
    /\ IF g # HTTP_200
       THEN last' = Resp("find_faces", "-", user_id, token, 0, g, g)
       ELSE last' = Resp("find_faces", "-", user_id, token, 0, g, HTTP_500)

\* the face endpoints as the routes run them
upload_face(user_id, blob, description) ==
    upload_face_body(guard_without_token, user_id, EmptyToken, blob, description)
get_faces(user_id, range_from, range_to) ==
    get_faces_body(guard_without_token, user_id, EmptyToken, range_from, range_to)
update_face(user_id, face_id, description) ==
    update_face_body(guard_without_token, user_id, EmptyToken, face_id, description)
delete_face(user_id, face_id) ==
    delete_face_body(guard_without_token, user_id, EmptyToken, face_id)
compare_face(user_id, blob) ==
    compare_face_body(guard_without_token, user_id, EmptyToken, blob, TRUE)
find_faces(user_id) ==
    find_faces_body(guard_without_token, user_id, EmptyToken)

(***************************************************************************)
(* The clock.                                                              *)
(***************************************************************************)
TickDeltas == {TOKEN_LIFETIME}
\* the clock advances by token lifetimes or by CACHE_TTL + 1 seconds: how
\* many advances have brought it to t
TicksUsed(t) == (t \div TOKEN_LIFETIME) + ((t % TOKEN_LIFETIME) \div (CACHE_TTL + 1))

Tick(d) ==
    /\ last = Idle
    /\ TicksUsed(now) < MaxTicks
    /\ now' = now + d
    /\ UNCHANGED <<users, next_user_id, faces, next_face_id, cached_faces,
                   cache_settle_time, utc_offset, issued, last, cache_log, pm,
                   inflight, process>>

(***************************************************************************)
(* The service after start-up: table "users" holds the superuser the       *)
(* operator has provisioned in the database (no endpoint can create the    *)
(* first holder of GRANT_PERMISSION); the cache is as lines 45-46 of       *)
(* face/services.py leave it.                                              *)
(***************************************************************************)
Superuser == [email |-> "root@x", name |-> "ann", password_hash |-> Hash("pw"),
              permissions |-> DEFAULT_PERMISSIONS + GRANT_PERMISSION]

NoCall == [op |-> "-", permission |-> 0, result |-> "-"]

\* the process after a start-up with a SECRET_KEY in its environment
Serving == [SECRET_KEY |-> "s3cret", phase |-> "serving"]

\* a request: the endpoint and the fields of its body that matter (the
\* description and the range are set where an endpoint reads them)
Request(op, user_id, permission, face_id, blob) ==
    [op |-> op, user_id |-> user_id, permission |-> permission,
     face_id |-> face_id, blob |-> blob, description |-> "-",
     range_from |-> 0, range_to |-> 0, grant |-> TRUE, requester_user_id |-> 0,
     email |-> "-", name |-> "-"]

NoRequest == Request("-", 0, 0, 0, NoBlob)

\* no request on its way; original is the target's permissions when the
\* waiting edit_permission requests were sent; checked are the requests
\* whose handler runs in a thread of the pool and stands between its query
\* and its commit
NoRequests == [pending |-> {}, current |-> NoRequest, done |-> {}, original |-> 0,
               checked |-> {}]

\* the state after start-up with these rows in table "users", and a User
\* object with these permissions
Start(rows, next_id, permissions) ==
    /\ users = rows
    /\ next_user_id = next_id
    /\ faces = << >>
    /\ next_face_id = 1
    /\ cached_faces = << >>
    /\ cache_settle_time = NegInf
    /\ now = 0
    /\ utc_offset \in UtcOffsets
    /\ issued = {}
    /\ last = Idle
    /\ cache_log = [built_at |-> 0, written |-> FALSE]
    /\ pm = [permissions |-> permissions, call |-> NoCall]
    /\ inflight = NoRequests
    /\ process = Serving

Init == Start(1 :> Superuser, 2, DEFAULT_PERMISSIONS)

PermissionInputs == {WRITE, GRANT_PERMISSION, READ + WRITE, PERMISSION_MAX + 1}
Ranges == {<<0, 1>>, <<1, 0>>, <<1, 1>>}

\* the worker serves one request at a time: the inputs of the requests it
\* can take, none while the response of the last one is going out
Open(S) == IF last = Idle THEN S ELSE {}

UserRequest ==
    \/ \E e \in Open(Emails), n \in Names : register_user(e, "pw", n)
    \/ \E u \in Open(UserIds), iv \in BOOLEAN : \E t \in Presentable(u) : verify_email(u, t, iv)
    \/ \E u \in Open(UserIds), w \in UserIds : \E h \in Headers(u) : verify_email_super(h, u, w)
    \/ \E a \in Open({"email", "name"}), v \in Emails \cup Names \cup {"root@x"},
          p \in Passwords, iv \in BOOLEAN : login_user(a, v, p, iv)
    \/ \E u \in Open(UserIds) : \E t \in Presentable(u) : delete_user(u, t)
    \/ \E u \in Open(UserIds) : \E h \in Headers(u) : change_password(h, u, "other")
    \/ \E u \in Open(UserIds) : \E h \in Headers(u) : get_user(h, u)
    \/ \E u \in Open(UserIds), r \in Ranges : \E h \in Headers(u) : get_users(h, u, r[1], r[2])
    \/ \E u \in Open(UserIds) : \E h \in Headers(u) : find_users(h, u)
    \/ \E u \in Open(UserIds), g \in BOOLEAN, w \in UserIds, p \in PermissionInputs : \E h \in Headers(u) :
          edit_permission(h, u, g, w, p)

FaceRequest ==
    \/ \E u \in Open(UserIds), b \in Blobs, d \in Descriptions : upload_face(u, b, d)
    \/ \E u \in Open(UserIds), r \in Ranges : get_faces(u, r[1], r[2])
    \/ \E u \in Open(UserIds), f \in FaceIds, d \in Descriptions : update_face(u, f, d)
    \/ \E u \in Open(UserIds), f \in FaceIds : delete_face(u, f)
    \/ \E u \in Open(UserIds), b \in Blobs : compare_face(u, b)
    \/ \E u \in Open(UserIds) : find_faces(u)

\* the response of the last request goes out
Reply ==
    /\ last # Idle
    /\ last' = Idle
    /\ UNCHANGED <<users, next_user_id, faces, next_face_id, cached_faces,
                   cache_settle_time, now, utc_offset, issued, cache_log, pm,
                   inflight, process>>

Next ==
    \/ UserRequest
    \/ FaceRequest
    \/ \E d \in TickDeltas : Tick(d)
    \/ Reply

Spec == Init /\ [][Next]_vars

(***************************************************************************)
(* The bodies of the face endpoints.  Through the routes they are never    *)
(* entered (guard_without_token), so what lines 138-162, 175-190, 202-213, *)
(* 226-238 and 251-281 do is examined here with the guard evaluated on the *)
(* token of the request, as the user endpoints call it.                    *)
(***************************************************************************)
upload_face_guarded(user_id, token, blob, description) ==
    upload_face_body(_guard_db(users, user_id, token, WRITE, now),
                     user_id, token, blob, description)
get_faces_guarded(user_id, token, range_from, range_to) ==
    get_faces_body(_guard_db(users, user_id, token, READ, now),
                   user_id, token, range_from, range_to)
update_face_guarded(user_id, token, face_id, description) ==
    update_face_body(_guard_db(users, user_id, token, UPDATE, now),
                     user_id, token, face_id, description)
delete_face_guarded(user_id, token, face_id) ==
    delete_face_body(_guard_db(users, user_id, token, DELETE, now),
                     user_id, token, face_id)
compare_face_guarded(user_id, token, blob, db_ok) ==
    compare_face_body(_guard_db(users, user_id, token, WRITE, now),
                      user_id, token, blob, db_ok)
find_faces_guarded(user_id, token) ==
    find_faces_body(_guard_db(users, user_id, token, WRITE, now), user_id, token)

\* the callers of the face requests: the ids the table holds or has held, and
\* the first id it has never held
Callers == {u \in UserIds : u <= next_user_id}

FaceBodyRequest ==
    \/ register_user("a@x", "pw", "ann")
    \/ \E u \in Open(Callers), b \in Blobs, d \in Descriptions : \E t \in issued :
          upload_face_guarded(u, t, b, d)
    \/ \E u \in Open(Callers), r \in Ranges : \E t \in issued : get_faces_guarded(u, t, r[1], r[2])
    \/ \E u \in Open(Callers), f \in FaceIds, d \in Descriptions : \E t \in issued :
          update_face_guarded(u, t, f, d)
    \/ \E u \in Open(Callers), f \in FaceIds : \E t \in issued : delete_face_guarded(u, t, f)
    \/ \E u \in Open(Callers), b \in Blobs, ok \in BOOLEAN : \E t \in issued :
          compare_face_guarded(u, t, b, ok)
    \/ \E u \in Open(Callers) : \E t \in issued : find_faces_guarded(u, t)

NextFaceBody ==
    \/ FaceBodyRequest
    \/ Tick(CACHE_TTL + 1)
    \/ Reply

\* a deployment in UTC whose tables are empty
InitFaceBody == Start(<< >>, 1, DEFAULT_PERMISSIONS) /\ utc_offset = 0

SpecFaceBody == InitFaceBody /\ [][NextFaceBody]_vars

(***************************************************************************)
(* The permission methods called on a User object, one call after the      *)
(* other, with operands from both sides of the range [0, 255].             *)
(***************************************************************************)
Capabilities == (0 - CapMargin)..(PERMISSION_MAX + CapMargin)

\* the operands of the calls that can start: none while one is returning
Operands == IF pm.call = NoCall THEN Capabilities ELSE {}

frame_service ==
    UNCHANGED <<users, next_user_id, faces, next_face_id, cached_faces,
                cache_settle_time, now, utc_offset, issued, last, cache_log,
                inflight, process>>

\* user.check_permission(permission)
call_check_permission(permission) ==
    /\ pm.call = NoCall
    /\ pm' = [permissions |-> pm.permissions,
              call |-> [op |-> "check_permission", permission |-> permission,
                        result |-> check_permission(pm.permissions, permission)]]
    /\ frame_service

\* user.grant_permission(permission)
call_grant_permission(permission) ==
    /\ pm.call = NoCall
    /\ LET r == grant_permission(pm.permissions, permission) IN
       pm' = [permissions |-> r.permissions,
              call |-> [op |-> "grant_permission", permission |-> permission,
                        result |-> r.raised]]
    /\ frame_service

\* user.revoke_permission(permission)
call_revoke_permission(permission) ==
    /\ pm.call = NoCall
    /\ LET r == revoke_permission(pm.permissions, permission) IN
       pm' = [permissions |-> r.permissions,
              call |-> [op |-> "revoke_permission", permission |-> permission,
                        result |-> r.raised]]
    /\ frame_service

\* user.grant_permission(permission); user.revoke_permission(permission):
\* when the first call raises, the second is not made
call_grant_then_revoke(permission) ==
    /\ pm.call = NoCall
    /\ LET g == grant_permission(pm.permissions, permission)
           r == revoke_permission(g.permissions, permission) IN
       pm' = IF g.raised # "none"
             THEN [permissions |-> g.permissions,
                   call |-> [op |-> "grant_revoke", permission |-> permission,
                             result |-> g.raised]]
             ELSE [permissions |-> r.permissions,
                   call |-> [op |-> "grant_revoke", permission |-> permission,
                             result |-> r.raised]]
    /\ frame_service

\* the call returns or its exception has propagated
Return ==
    /\ pm.call # NoCall
    /\ pm' = [pm EXCEPT !.call = NoCall]
    /\ frame_service

NextPerm ==
    \/ \E c \in Operands : call_check_permission(c)
    \/ \E c \in Operands : call_grant_permission(c)
    \/ \E c \in Operands : call_revoke_permission(c)
    \/ \E c \in Operands : call_grant_then_revoke(c)
    \/ Return

\* a User row with any SmallInteger the methods can leave in permissions
InitPerm ==
    \E p \in 0..PERMISSION_MAX : Start(<< >>, 1, p) /\ utc_offset = 0

SpecPerm == InitPerm /\ [][NextPerm]_vars

(***************************************************************************)
(* What the properties below read off a step.                              *)
(***************************************************************************)
\* the step serves a request
Serves(ops) == last = Idle /\ last' # Idle /\ last'.op \in ops

\* the token is well-formed, signed with SECRET_KEY, not expired at t, and
\* issued for subject S
Verifies(token, t) == token.kind = "jwt" /\ token.sig = "good" /\ token.exp > t
Authenticates(token, S, t) == Verifies(token, t) /\ token.sub = S

\* bit c (one of the constants 1 << k) is set in permissions
HasBit(permissions, c) == (permissions \div c) % 2 = 1

\* some bit 0..7 is set in both
SharesBit(p, c) ==
    \E k \in 0..7 : (p \div (2 ^ k)) % 2 = 1 /\ (c \div (2 ^ k)) % 2 = 1

\* the capability the interface assigns to an operation
RequiredCapability(op) ==
    CASE op \in {"upload_face", "compare_face"} -> WRITE
      [] op = "delete_face" -> DELETE
      [] op = "update_face" -> UPDATE
      [] op \in {"edit_permission", "get_users", "verify_email_super"} -> GRANT_PERMISSION
      [] op \in {"find_users", "get_faces"} -> READ
      [] op = "find_faces" -> WRITE

\* cache is the (description, feature) projection of all of rows, in the
\* order one read returned them
IsProjectionOf(cache, rows) ==
    /\ Len(cache) = Len(rows)
    /\ \E p \in Permutations(1..Len(rows)) :
          \A i \in 1..Len(rows) :
             cache[i] = <<rows[p[i]].description, rows[p[i]].feature>>

(***************************************************************************)
(* C1                                                                      *)
(***************************************************************************)
GuardedUserOps == {"get_users", "find_users", "edit_permission", "verify_email_super"}

\* C1: whenever a request calls _guard_db for claimed subject S, its token
\* and the required capability c, the guard succeeds if and only if the token
\* authenticates for S, a user row with id S exists and that row's permissions
\* have bit c set; with an authenticating token it raises 404 when no row
\* exists and 403 when the row lacks c.
C1_GuardDecides ==
    [][(Serves(GuardedUserOps) /\ last'.guard # 0) =>
          LET S == last'.user_id
              c == RequiredCapability(last'.op)
              authenticated == Authenticates(last'.token, S, now)
              exists == S \in DOMAIN users
          IN /\ (last'.guard = HTTP_200) <=>
                   (authenticated /\ exists /\ HasBit(users[S].permissions, c))
             /\ (authenticated /\ ~exists) => last'.guard = HTTP_404
             /\ (authenticated /\ exists /\ ~HasBit(users[S].permissions, c))
                   => last'.guard = HTTP_403]_vars

\* C1: the guard has answered 404 to a token that authenticates, the row of
\* its subject being gone
C1_Witness ==
    /\ last.op \in GuardedUserOps
    /\ last.guard = HTTP_404
    /\ Authenticates(last.token, last.user_id, now)
    /\ last.user_id \notin DOMAIN users

(***************************************************************************)
(* C2                                                                      *)
(***************************************************************************)
\* C2: whenever a request runs validate_user for claimed subject S, it raises
\* 401 if the token is missing, malformed, wrongly signed or expired, raises
\* 403 (not 401) if the token verifies but was issued for another subject, and
\* returns only if the token verifies and its subject is S.
C2_ValidateUser ==
    [][(last = Idle /\ last' # Idle /\ last'.auth # 0) =>
          LET S == last'.user_id
              token == last'.token
          IN /\ ~Verifies(token, now) => last'.auth = HTTP_401
             /\ (Verifies(token, now) /\ token.sub # S) => last'.auth = HTTP_403
             /\ last'.auth = HTTP_200 => Authenticates(token, S, now)
             /\ last'.auth \in {HTTP_200, HTTP_401, HTTP_403}]_vars

\* C2: validate_user has answered 403 to a token that verifies and was issued
\* for another subject
C2_Witness ==
    /\ last.auth = HTTP_403
    /\ Verifies(last.token, now)
    /\ last.token.sub # last.user_id

(***************************************************************************)
(* C3                                                                      *)
(***************************************************************************)
SensitiveOps == {"upload_face", "update_face", "delete_face", "compare_face",
                 "edit_permission", "get_users", "delete_user", "change_password"}

\* C3: no request of upload_face, update_face, delete_face, compare_face,
\* edit_permission, get_users, delete_account or change_password commits a
\* change to the store unless _guard_db has succeeded in that request.
C3_CommitBehindGuard ==
    [][(Serves(SensitiveOps) /\ <<users, faces>>' # <<users, faces>>)
          => last'.guard = HTTP_200]_vars

(***************************************************************************)
(* C4                                                                      *)
(***************************************************************************)
CapabilityOps == {"upload_face", "compare_face", "delete_face", "update_face",
                  "edit_permission"}

\* C4: UploadFace, MatchFace, DeleteFace, UpdateFaceLabel and
\* GrantOrRevokeCapability succeed only if the caller's stored permissions
\* hold the capability of the operation; a caller whose row lacks it, unless
\* turned away as unauthenticated, gets 403 and the store stays as it is.
C4_CapabilityRequired ==
    [][Serves(CapabilityOps) =>
          LET S == last'.user_id
              c == RequiredCapability(last'.op)
              exists == S \in DOMAIN users
          IN /\ last'.status = HTTP_200 =>
                   (exists /\ HasBit(users[S].permissions, c))
             /\ (exists /\ ~HasBit(users[S].permissions, c) /\ last'.status # HTTP_401)
                   => (last'.status = HTTP_403 /\ <<users, faces>>' = <<users, faces>>)]_vars

(***************************************************************************)
(* C5, C6, C7                                                              *)
(***************************************************************************)
\* the request has come to the freshness check of line 262
ChecksFreshness == Serves({"compare_face"}) /\ (last'.status = HTTP_200 \/ last'.reads = 1)

\* C5: a freshness check on a populated cache whose snapshot was built no more
\* than CACHE_TTL ago leaves the snapshot as it is and does not query the
\* store: a reload happens only when the cache is empty or now - builtAt > TTL.
C5_FreshSnapshotReused ==
    [][(ChecksFreshness /\ Len(cached_faces) > 0
           /\ now - cache_log.built_at <= CACHE_TTL)
          => (last'.reads = 0 /\ cached_faces' = cached_faces)]_vars

\* C6: every successful upload_face, update_face and delete_face leaves the
\* cache empty, so that no later compare_face scores against a snapshot built
\* before the write.
C6_WriteInvalidates ==
    [][(Serves({"upload_face", "update_face", "delete_face"}) /\ last'.status = HTTP_200)
          => Len(cached_faces') = 0]_vars

\* C7: of the compare_face requests served at one instant, one reloads the
\* face table and the others reuse its result: a request that finds the
\* snapshot built at this instant, with no write since, does not query the store.
C7_OneReload ==
    [][(ChecksFreshness /\ Len(cached_faces) > 0 /\ cache_log.built_at = now
           /\ ~cache_log.written)
          => last'.reads = 0]_vars

(***************************************************************************)
(* C8                                                                      *)
(***************************************************************************)
\* C8: the cache changes only in the step of a compare_face whose one store
\* read succeeded, and then to the complete (description, feature) projection
\* of the rows that read returned; a reload whose read fails leaves the
\* snapshot as it was.  (It starts empty, so it is always empty or such a
\* projection.)
C8_SnapshotWhole ==
    [][/\ cached_faces' # cached_faces =>
             (ChecksFreshness /\ last'.reads = 1 /\ last'.status = HTTP_200)
       /\ (ChecksFreshness /\ last'.reads = 1 /\ last'.status = HTTP_200)
             => IsProjectionOf(cached_faces', faces)
       /\ (Serves({"compare_face"}) /\ last'.status # HTTP_200)
             => cached_faces' = cached_faces]_vars

\* C8: a reload has failed and the snapshot of before is still in the cache
C8_Witness ==
    /\ last.op = "compare_face"
    /\ last.status = HTTP_500
    /\ last.reads = 1
    /\ Len(cached_faces) = MaxFaces

(***************************************************************************)
(* C9, C10                                                                 *)
(***************************************************************************)
\* C9: for permissions and an operand c in [0, 255], check_permission returns
\* True exactly when the bitwise AND of the two is non-zero, and changes no
\* state.
C9_CheckPermission ==
    [][(pm.call = NoCall /\ pm'.call.op = "check_permission"
           /\ pm.permissions \in 0..PERMISSION_MAX
           /\ pm'.call.permission \in 0..PERMISSION_MAX)
          => /\ pm'.call.result =
                   (IF SharesBit(pm.permissions, pm'.call.permission)
                    THEN "True" ELSE "False")
             /\ pm'.permissions = pm.permissions
             /\ users' = users]_vars

\* C9: check_permission has returned True for an operand of two bits of which
\* the user holds one
C9_Witness ==
    /\ pm.call.op = "check_permission"
    /\ pm.call.permission = READ + WRITE
    /\ pm.permissions = WRITE
    /\ pm.call.permission <= PERMISSION_MAX
    /\ pm.call.result = "True"

\* C10: for an operand below 0 or above 255, check_permission,
\* grant_permission and revoke_permission raise the ValueError "Invalid
\* Permission" and leave the permissions as they were.
C10_OutOfRange ==
    [][(pm.call = NoCall /\ pm'.call # NoCall
           /\ (pm'.call.permission < 0 \/ pm'.call.permission > PERMISSION_MAX))
          => (pm'.call.result = "InvalidPermission"
                 /\ pm'.permissions = pm.permissions)]_vars

\* C10: grant_permission has raised for an operand below 0 on a user who
\* holds permissions
C10_Witness ==
    /\ pm.call.op = "grant_permission"
    /\ pm.call.permission = -1
    /\ pm.call.result = "InvalidPermission"
    /\ pm.permissions = DEFAULT_PERMISSIONS

(***************************************************************************)
(* C11, C12, C13                                                           *)
(***************************************************************************)
\* bit k of n, for n >= 0
Bit(n, k) == (n \div (2 ^ k)) % 2

\* the values with exactly one bit in [0, 255]
SingleBits == {1, 2, 4, 8, 16, 32, 64, 128}

\* the step is a call of one of these methods
Calls(ops) == pm.call = NoCall /\ pm'.call # NoCall /\ pm'.call.op \in ops

\* C11: for every operand in [0, 255] that is none of 1, 2, 4, 8, 16, 32, 64,
\* 128, grant_permission and revoke_permission raise "Multiple Permission"
\* and leave the permissions as they were.
C11_NotSingleBit ==
    [][(Calls({"grant_permission", "revoke_permission"})
           /\ pm'.call.permission \in (0..PERMISSION_MAX) \ SingleBits)
          => (pm'.call.result = "MultiplePermission"
                 /\ pm'.permissions = pm.permissions)]_vars

\* C12 as stated: for permissions p in [0, 255] and a single-bit c, granting
\* c and then revoking c gives p back.
C12_RoundTripIdentity ==
    [][(Calls({"grant_revoke"}) /\ pm'.call.permission \in SingleBits)
          => pm'.permissions = pm.permissions]_vars

\* C12: for permissions p in [0, 255] and a single-bit c, granting c and then
\* revoking c raises nothing and gives p with bit c cleared and every other
\* bit as it was: it gives p back exactly when p did not hold c.
C12_RoundTripClears ==
    [][(Calls({"grant_revoke"}) /\ pm'.call.permission \in SingleBits)
          => /\ pm'.call.result = "none"
             /\ pm'.permissions \in 0..PERMISSION_MAX
             /\ \A k \in 0..7 :
                   Bit(pm'.permissions, k) =
                      (IF 2 ^ k = pm'.call.permission THEN 0
                       ELSE Bit(pm.permissions, k))
             /\ (pm'.permissions = pm.permissions)
                   <=> ~HasBit(pm.permissions, pm'.call.permission)]_vars

\* C12: WRITE has been granted to and revoked from a user who held it, and
\* the user is left without it
C12_Witness ==
    /\ pm.call.op = "grant_revoke"
    /\ pm.call.permission = WRITE
    /\ pm.call.result = "none"
    /\ pm.permissions = DEFAULT_PERMISSIONS - WRITE

\* C13: for a single-bit c, grant_permission sets bit c and revoke_permission
\* clears bit c, no other bit changing; and whatever call is made, succeeding
\* or raising, the permissions stay in [0, 255].
C13_OneBitChanges ==
    [][/\ (Calls({"grant_permission"}) /\ pm'.call.permission \in SingleBits)
             => /\ pm'.call.result = "none"
                /\ \A k \in 0..7 :
                      Bit(pm'.permissions, k) =
                         (IF 2 ^ k = pm'.call.permission THEN 1
                          ELSE Bit(pm.permissions, k))
       /\ (Calls({"revoke_permission"}) /\ pm'.call.permission \in SingleBits)
             => /\ pm'.call.result = "none"
                /\ \A k \in 0..7 :
                      Bit(pm'.permissions, k) =
                         (IF 2 ^ k = pm'.call.permission THEN 0
                          ELSE Bit(pm.permissions, k))
       /\ pm.permissions \in 0..PERMISSION_MAX
             => pm'.permissions \in 0..PERMISSION_MAX]_vars

\* C13: revoke_permission has cleared a bit the user did not hold, out of
\* permissions that were 0
C13_Witness ==
    /\ pm.call.op = "revoke_permission"
    /\ pm.call.permission = GRANT_PERMISSION
    /\ pm.call.result = "none"
    /\ pm.permissions = 0

(***************************************************************************)
(* C14: two edit_permission requests of the superuser, sent at the same    *)
(* time, that grant two different single bits to the same target.  The     *)
(* worker takes them in either order; each handler runs from its first     *)
(* line to its commit (lines 338-354) before the next request is taken.    *)
(***************************************************************************)
Target == 2

TargetRow(permissions) ==
    [email |-> "a@x", name |-> "ann", password_hash |-> Hash("pw"),
     permissions |-> permissions]

\* the worker takes one of the waiting requests
Take(r) ==
    /\ last = Idle
    /\ inflight.current = NoRequest
    /\ r \in inflight.pending
    /\ inflight' = [inflight EXCEPT !.pending = @ \ {r}, !.current = r]
    /\ UNCHANGED <<users, next_user_id, faces, next_face_id, cached_faces,
                   cache_settle_time, now, utc_offset, issued, last, cache_log, pm,
                   process>>

\* the request the worker has taken and not yet served, if it is for op
Taken(op) ==
    IF last = Idle /\ inflight.current.op = op THEN {inflight.current} ELSE {}

\* the response of the request goes out: the call has completed
Complete ==
    /\ last # Idle
    /\ last' = Idle
    /\ inflight' = [inflight EXCEPT !.current = NoRequest,
                                    !.done = @ \cup {inflight.current}]
    /\ UNCHANGED <<users, next_user_id, faces, next_face_id, cached_faces,
                   cache_settle_time, now, utc_offset, issued, cache_log, pm,
                   process>>

NextGrant ==
    \/ \E r \in inflight.pending : Take(r)
    \/ \E r \in Taken("edit_permission") : \E t \in issued :
          edit_permission([scheme |-> "Bearer", token |-> t], r.user_id, TRUE,
                          Target, r.permission)
    \/ Complete

\* the superuser is logged in; the target holds nothing, the default, or all
\* but the two bits
InitGrant ==
    \E a, b \in SingleBits :
       \E original \in {NO_PERMISSIONS, DEFAULT_PERMISSIONS,
                        PERMISSION_MAX - a - b} :
          /\ a # b
          /\ users = (1 :> Superuser) @@ (Target :> TargetRow(original))
          /\ next_user_id = 3
          /\ faces = << >>
          /\ next_face_id = 1
          /\ cached_faces = << >>
          /\ cache_settle_time = NegInf
          /\ now = 0
          /\ utc_offset = 0
          /\ issued = {generate_jwt(1, 0, 0)}
          /\ last = Idle
          /\ cache_log = [built_at |-> 0, written |-> FALSE]
          /\ pm = [permissions |-> DEFAULT_PERMISSIONS, call |-> NoCall]
          /\ inflight = [pending |-> {Request("edit_permission", 1, c, 0, NoBlob) :
                                          c \in {a, b}},
                         current |-> NoRequest, done |-> {},
                         original |-> original, checked |-> {}]
          /\ process = Serving

SpecGrant == InitGrant /\ [][NextGrant]_vars

C15_ExpiresAfterThirtyDays ==
    [][(Serves({"register_user", "login_user"}) /\ last'.status = HTTP_200)
          => /\ last'.token.sub = last'.user_id
             /\ last'.token.exp = now + TOKEN_LIFETIME
             /\ Verifies(last'.token, now)]_vars

\* C15: a token issued at time 0 in a zone five hours behind UTC
C15_Witness ==
    /\ last # Idle
    /\ last.op = "login_user"
    /\ last.status = HTTP_200
    /\ utc_offset = -5 * 3600
    /\ last.token.exp = TOKEN_LIFETIME - 5 * 3600

(***************************************************************************)
(* C16, C17                                                                *)
(***************************************************************************)
\* compare_face has returned its list
Matches == Serves({"compare_face"}) /\ last'.status = HTTP_200

\* what Match owes for one entry of the snapshot: its label and 1 / (d + eps)
\* for the distance d between the query and the entry's feature
Pair(query, cached_face) ==
    [description |-> cached_face[1],
     score |-> [num |-> FLOAT32_EPS_INV,
                den |-> (IF query >= cached_face[2] THEN query - cached_face[2]
                         ELSE cached_face[2] - query) * FLOAT32_EPS_INV + 1]]

\* score a is below score b (the numerators are equal)
Below(a, b) == a.den > b.den

\* C16: the list Match returns has exactly one (label, score) pair for every
\* entry of the snapshot it scored against (as many pairs as entries, and a
\* one-to-one assignment of positions to entries), and no score in it is
\* above the score before it.
C16_WholeRankedList ==
    [][Matches =>
          LET r == last'.desc_scores
              c == cached_faces'
              q == last'.blob.feature
          IN /\ Len(r) = Len(c)
             /\ \E p \in Permutations(1..Len(c)) :
                   \A i \in 1..Len(c) : r[i] = Pair(q, c[p[i]])
             /\ \A i \in 1..(Len(r) - 1) : ~Below(r[i].score, r[i + 1].score)]_vars

\* C16: Match has ranked a snapshot of two faces and put the second one first
C16_Witness ==
    /\ last.op = "compare_face"
    /\ last.status = HTTP_200
    /\ Len(cached_faces) = 2
    /\ Len(last.desc_scores) = 2
    /\ last.desc_scores[1] = Pair(last.blob.feature, cached_faces[2])
    /\ Below(last.desc_scores[2].score, last.desc_scores[1].score)

\* the rankings of a snapshot for a query in which scores never increase and
\* entries of equal score stand in the snapshot's order
StableRankings(query, cache) ==
    {[i \in 1..Len(cache) |-> Pair(query, cache[p[i]])] :
        p \in {q \in Permutations(1..Len(cache)) :
                  \A i, j \in 1..Len(cache) :
                     i < j => LET a == Pair(query, cache[q[i]]).score
                                  b == Pair(query, cache[q[j]]).score
                              IN ~Below(a, b) /\ (a = b => q[i] < q[j])}}

\* C17: the list Match returns is a ranking of the snapshot in which entries
\* of equal score keep the snapshot's order, and it is the only such ranking:
\* query and snapshot determine the list, so two calls with the same query on
\* the same snapshot return the same list.
C17_StableAndDetermined ==
    [][Matches =>
          StableRankings(last'.blob.feature, cached_faces') = {last'.desc_scores}]_vars

\* C17: Match has ranked a snapshot of two faces of equal score and different
\* labels
C17_Witness ==
    /\ last.op = "compare_face"
    /\ last.status = HTTP_200
    /\ Len(cached_faces) = 2
    /\ cached_faces[1][1] # cached_faces[2][1]
    /\ cached_faces[1][2] = cached_faces[2][2]
    /\ Len(last.desc_scores) = 2
    /\ last.desc_scores[1].score = last.desc_scores[2].score
    /\ last.desc_scores[1].description = cached_faces[1][1]

(***************************************************************************)
(* The service over a store that holds faces.  No request can put a face   *)
(* into the store through the routes (guard_without_token), so the rows    *)
(* are there as the superuser's row is: written to the database by the     *)
(* operator.  Each request is received, served by its handler and          *)
(* answered.                                                               *)
(***************************************************************************)
StoredFaces ==
    <<[id |-> 1, uploaded_by |-> 1, description |-> "alice", feature |-> 1],
      [id |-> 2, uploaded_by |-> 1, description |-> "bob", feature |-> 2]>>

\* operands of edit_permission: no bit, one bit, two bits, and values on
\* either side of [0, 255]
EditOperands == {0, WRITE, READ + WRITE, PERMISSION_MAX + 1, -1}

Requests ==
    {Request("login_user", 1, 0, 0, NoBlob), Request("register_user", 0, 0, 0, NoBlob)}
       \cup {[Request("upload_face", u, 0, 0, b) EXCEPT !.description = d] :
                u \in UserIds, b \in Blobs, d \in Descriptions}
       \cup {[Request("get_faces", u, 0, 0, NoBlob) EXCEPT
                  !.range_from = r[1], !.range_to = r[2]] :
                u \in UserIds, r \in Ranges}
       \cup {Request("compare_face", u, 0, 0, b) : u \in UserIds, b \in Blobs}
       \cup {[Request("edit_permission", 1, p, 0, NoBlob) EXCEPT
                  !.grant = g, !.requester_user_id = w] :
                p \in EditOperands, g \in BOOLEAN, w \in UserIds}
       \cup {Request("delete_face", u, 0, f, NoBlob) :
                u \in UserIds, f \in 1..(Len(StoredFaces) + 1)}

\* the worker receives a request
Receive(r) ==
    /\ last = Idle
    /\ inflight.current = NoRequest
    /\ inflight' = [inflight EXCEPT !.current = r]
    /\ UNCHANGED <<users, next_user_id, faces, next_face_id, cached_faces,
                   cache_settle_time, now, utc_offset, issued, last, cache_log, pm,
                   process>>

\* the response of the request goes out
Answer ==
    /\ last # Idle
    /\ last' = Idle
    /\ inflight' = [inflight EXCEPT !.current = NoRequest]
    /\ UNCHANGED <<users, next_user_id, faces, next_face_id, cached_faces,
                   cache_settle_time, now, utc_offset, issued, cache_log, pm,
                   process>>

NextStored ==
    \/ \E r \in Open(Requests) : Receive(r)
    \/ \E r \in Taken("login_user") : login_user("email", "root@x", "pw", TRUE)
    \/ \E r \in Taken("register_user") : register_user("a@x", "pw", "ann")
    \/ \E r \in Taken("upload_face") : upload_face(r.user_id, r.blob, r.description)
    \/ \E r \in Taken("get_faces") : get_faces(r.user_id, r.range_from, r.range_to)
    \/ \E r \in Taken("compare_face") : compare_face(r.user_id, r.blob)
    \/ \E r \in Taken("delete_face") : delete_face(r.user_id, r.face_id)
    \/ \E r \in Taken("edit_permission") : \E t \in issued :
          edit_permission([scheme |-> "Bearer", token |-> t], r.user_id, r.grant,
                          r.requester_user_id, r.permission)
    \/ Answer

InitStored ==
    /\ users = (1 :> Superuser)
    /\ next_user_id = 2
    /\ faces = StoredFaces
    /\ next_face_id = Len(StoredFaces) + 1
    /\ cached_faces = << >>
    /\ cache_settle_time = NegInf
    /\ now = 0
    /\ utc_offset = 0
    /\ issued = {}
    /\ last = Idle
    /\ cache_log = [built_at |-> 0, written |-> FALSE]
    /\ pm = [permissions |-> DEFAULT_PERMISSIONS, call |-> NoCall]
    /\ inflight = NoRequests
    /\ process = Serving

SpecStored == InitStored /\ [][NextStored]_vars

\* the caller of the request the worker has taken is authorized for c: its
\* row holds the capability and it holds a token of its own that verifies
Authorized(c) ==
    LET S == inflight.current.user_id
    IN /\ S \in DOMAIN users
       /\ HasBit(users[S].permissions, c)
       /\ \E t \in issued : Authenticates(t, S, now)

\* the blob is an image of an allowed type in which a face is found
HoldsFace(blob) ==
    blob.b64 /\ blob.ext \in {"png", "jpg", "jpeg"} /\ blob.feature # 0

\* the blob is an image of an allowed type in which no face is found
HoldsNoFace(blob) ==
    blob.b64 /\ blob.ext \in {"png", "jpg", "jpeg"} /\ blob.feature = 0

\* C18: when an authorized caller's query has the embedding of a stored face
\* A, Match completes without error, and in the returned list A's score is
\* finite, no score is above it, and every stored face of another embedding
\* scores strictly below A.
C18_IdenticalEmbeddingFirst ==
    [][(/\ Serves({"compare_face"})
        /\ Authorized(WRITE)
        /\ HoldsFace(inflight.current.blob)
        /\ \E i \in DOMAIN faces : faces[i].feature = inflight.current.blob.feature)
          => /\ last'.status = HTTP_200
             /\ LET q == inflight.current.blob.feature
                    r == last'.desc_scores
                IN \A i \in DOMAIN faces :
                      faces[i].feature = q =>
                         LET A == Pair(q, <<faces[i].description, faces[i].feature>>)
                         IN /\ \E k \in DOMAIN r : r[k] = A
                            /\ A.score.den > 0
                            /\ \A j \in DOMAIN r : ~Below(A.score, r[j].score)
                            /\ \A j \in DOMAIN faces :
                                  faces[j].feature # q =>
                                     \E k \in DOMAIN r :
                                        /\ r[k].description = faces[j].description
                                        /\ Below(r[k].score, A.score)]_vars

\* C18: the logged-in superuser's Match with the embedding of stored face
\* "bob" has been served
C18_Witness ==
    /\ last.op = "compare_face"
    /\ last.user_id = 1
    /\ issued # {}
    /\ inflight.current.blob = [b64 |-> TRUE, ext |-> "png", feature |-> 2]
    /\ \E i \in DOMAIN faces : faces[i].feature = 2

\* C19: UploadFace by an authorized caller with a blob in which no face is
\* found is rejected with the 400 of line 144, and the stored face records
\* are the same after the call as before.
C19_NoFaceRejected ==
    [][(/\ Serves({"upload_face"})
        /\ Authorized(WRITE)
        /\ HoldsNoFace(inflight.current.blob))
          => (last'.status = HTTP_400 /\ faces' = faces)]_vars

\* C19: the logged-in superuser's upload of a png without a face has been served
C19_Witness ==
    /\ last.op = "upload_face"
    /\ last.user_id = 1
    /\ issued # {}
    /\ inflight.current.blob = [b64 |-> TRUE, ext |-> "png", feature |-> 0]

\* C20: DeleteFace by an authorized caller fails with 404 and leaves the
\* store as it is when no stored face has the id, and succeeds and removes
\* the face when one has it (so a second DeleteFace of the id finds none).
C20_DeleteAbsentNotFound ==
    [][(Serves({"delete_face"}) /\ Authorized(DELETE)) =>
          LET id == inflight.current.face_id
          IN IF \E i \in DOMAIN faces : faces[i].id = id
             THEN /\ last'.status = HTTP_200
                  /\ ~\E i \in DOMAIN faces' : faces'[i].id = id
             ELSE /\ last'.status = HTTP_404
                  /\ faces' = faces]_vars

\* C20: the logged-in superuser's DeleteFace of an id that no stored face has
\* has been served
C20_Witness ==
    /\ last.op = "delete_face"
    /\ last.user_id = 1
    /\ issued # {}
    /\ inflight.current.face_id = Len(StoredFaces) + 1
    /\ ~\E i \in DOMAIN faces : faces[i].id = inflight.current.face_id

\* C21: UploadFace by a subject that holds a valid token of its own and the
\* write capability, with a blob in which a face is detected, succeeds and
\* adds exactly one Face Record: owned by the subject, carrying the
\* extracted embedding and the given label; the records stored before stay.
C21_UploadSucceeds ==
    [][(/\ Serves({"upload_face"})
        /\ Authorized(WRITE)
        /\ HoldsFace(inflight.current.blob))
          => /\ last'.status = HTTP_200
             /\ Len(faces') = Len(faces) + 1
             /\ SubSeq(faces', 1, Len(faces)) = faces
             /\ LET new == faces'[Len(faces')]
                IN /\ new.uploaded_by = inflight.current.user_id
                   /\ new.feature = inflight.current.blob.feature
                   /\ new.description = inflight.current.description
                   /\ \A i \in DOMAIN faces : faces[i].id # new.id]_vars

\* C21: the logged-in superuser's upload of a png with a face, labelled
\* "alice", has been served
C21_Witness ==
    /\ last.op = "upload_face"
    /\ last.user_id = 1
    /\ issued # {}
    /\ HasBit(users[1].permissions, WRITE)
    /\ inflight.current.blob = [b64 |-> TRUE, ext |-> "png", feature |-> 1]
    /\ inflight.current.description = "alice"

\* the two rows are one record: equal but for the label
SameButLabel(a, b) ==
    a.id = b.id /\ a.uploaded_by = b.uploaded_by /\ a.feature = b.feature

\* C22: a stored Face Record keeps its embedding and its owner for as long as
\* a record of its id exists, whatever the service does; and an update_face
\* changes at most the label of one record: no record comes or goes, every
\* record keeps id, owner and embedding, and all records but one are as
\* they were.
C22_OnlyLabelChanges ==
    [][/\ \A i \in DOMAIN faces : \A j \in DOMAIN faces' :
             faces'[j].id = faces[i].id => SameButLabel(faces[i], faces'[j])
       /\ Serves({"update_face"}) =>
             /\ Len(faces') = Len(faces)
             /\ \A i \in DOMAIN faces : SameButLabel(faces[i], faces'[i])
             /\ Cardinality({i \in DOMAIN faces : faces'[i] # faces[i]}) <= 1]_vars

\* C22: an update_face has succeeded on one of two stored faces that the
\* cache holds under the labels they had before
C22_Witness ==
    /\ last.op = "update_face"
    /\ last.status = HTTP_200
    /\ Len(faces) = 2
    /\ Len(cached_faces) = 2
    /\ \E i \in DOMAIN faces :
          \A k \in DOMAIN cached_faces : cached_faces[k][1] # faces[i].description

\* the record store and the cache are as they were
StoreAndCacheKept ==
    UNCHANGED <<users, next_user_id, faces, next_face_id, cached_faces,
                cache_settle_time>>

\* C23, as the specification states it: when the guard succeeds it returns
\* the caller's user record, and a request whose guard fails, or that does
\* nothing but pass the guard and read, leaves store and cache as they were.
C23_GuardReturnsUserRecord ==
    [][(Serves(GuardedUserOps) /\ last'.guard # 0) =>
          /\ last'.guard = HTTP_200 =>
                last'.returned = [type |-> "User", id |-> last'.user_id]
          /\ last'.guard # HTTP_200 => StoreAndCacheKept
          /\ last'.op \in {"get_users", "find_users"} => StoreAndCacheKept]_vars

\* C23, amended: when the guard succeeds it returns True, not a user record;
\* a request whose guard fails, or that does nothing but pass the guard and
\* read, leaves store and cache as they were.
C23_GuardReturnsTrue ==
    [][(Serves(GuardedUserOps) /\ last'.guard # 0) =>
          /\ last'.guard = HTTP_200 => last'.returned = [type |-> "bool", id |-> 1]
          /\ last'.guard # HTTP_200 =>
                (last'.returned.type = "-" /\ StoreAndCacheKept)
          /\ last'.op \in {"get_users", "find_users"} => StoreAndCacheKept]_vars

\* C23: the guard of a get_users request has succeeded and returned
C23_Witness ==
    /\ last.op = "get_users"
    /\ last.guard = HTTP_200
    /\ last.returned.type = "bool"

(***************************************************************************)
(* Start-up.  main.py and the service modules import auth, whose lines     *)
(* 13-24 run once: load the environment, read SECRET_KEY, raise ValueError *)
(* if it is missing.  An import that raises ends the process before        *)
(* uvicorn.run is reached; one that returns lets the service take          *)
(* requests.                                                               *)
(***************************************************************************)
\* os.getenv("SECRET_KEY"): None when the variable is not set
SecretKeys == {"None", "", "s3cret"}

\* a check that takes only None for missing
missing_none(secret_key) == secret_key = "None"

\* line 22: not SECRET_KEY, true of None and of the empty string
missing(secret_key) == secret_key = "None" \/ secret_key = ""

\* import auth
load_auth ==
    /\ process.phase = "importing"
    /\ process' = [process EXCEPT !.phase = IF missing(process.SECRET_KEY)
                                             THEN "failed" ELSE "serving"]
    /\ UNCHANGED <<users, next_user_id, faces, next_face_id, cached_faces,
                   cache_settle_time, now, utc_offset, issued, last, cache_log, pm,
                   inflight>>

NextStartup ==
    \/ load_auth
    \/ process.phase = "serving" /\ NextStored

InitStartup ==
    /\ users = (1 :> Superuser)
    /\ next_user_id = 2
    /\ faces = StoredFaces
    /\ next_face_id = Len(StoredFaces) + 1
    /\ cached_faces = << >>
    /\ cache_settle_time = NegInf
    /\ now = 0
    /\ utc_offset = 0
    /\ issued = {}
    /\ last = Idle
    /\ cache_log = [built_at |-> 0, written |-> FALSE]
    /\ pm = [permissions |-> DEFAULT_PERMISSIONS, call |-> NoCall]
    /\ inflight = NoRequests
    /\ process \in {[SECRET_KEY |-> k, phase |-> "importing"] : k \in SecretKeys}

SpecStartup == InitStartup /\ [][NextStartup]_vars

\* C24: a process without a signing secret in its environment (SECRET_KEY
\* unset or empty) leaves its start-up only by failing, and no step of it
\* receives or serves a request or issues a token.
C24_NoSecretNoService ==
    [][process.SECRET_KEY \in {"None", ""} =>
          /\ process'.phase \in {"importing", "failed"}
          /\ process'.phase # process.phase => process'.phase = "failed"
          /\ issued' = {} /\ last' = Idle /\ inflight' = NoRequests]_vars

\* C24: the start-up of a process whose SECRET_KEY is the empty string has
\* failed
C24_Witness == process.phase = "failed" /\ process.SECRET_KEY = ""

\* C25: the guard reports failures in a fixed order.  A token that does not
\* verify gives 401 and a verified token of another subject gives 403, in
\* both cases whether or not the claimed user has a row and whatever its
\* permissions are: the answer to a request whose authentication fails does
\* not depend on the store.  Only a token that authenticates brings the store
\* in: 404 without a row, and only with a row the capability, 403 without it.
C25_GuardOrder ==
    [][(Serves(GuardedUserOps) /\ last'.guard # 0) =>
          LET S == last'.user_id
              token == last'.token
              c == RequiredCapability(last'.op)
          IN /\ ~Verifies(token, now) =>
                   (last'.guard = HTTP_401 /\ last'.auth = HTTP_401)
             /\ (Verifies(token, now) /\ token.sub # S) =>
                   (last'.guard = HTTP_403 /\ last'.auth = HTTP_403)
             /\ last'.guard = HTTP_404 =>
                   (last'.auth = HTTP_200 /\ S \notin DOMAIN users)
             /\ (last'.guard = HTTP_403 /\ last'.auth = HTTP_200) =>
                   (S \in DOMAIN users /\ ~HasBit(users[S].permissions, c))
             /\ last'.auth # HTTP_200 => (last'.status = last'.auth /\ StoreAndCacheKept)]_vars

\* C25: the guard has answered 401 to a token that does not verify, the
\* claimed user having no row
C25_Witness ==
    /\ last.op \in GuardedUserOps
    /\ last.guard = HTTP_401
    /\ ~Verifies(last.token, now)
    /\ last.user_id \notin DOMAIN users

\* C26: an edit_permission of an authorized superuser for a stored target
\* whose operand is outside [0, 255] or is not a single bit is rejected with
\* a request-level error, 400, and the stored permissions are as they were.
C26_BadOperandRejected ==
    [][(/\ Serves({"edit_permission"})
        /\ Authorized(GRANT_PERMISSION)
        /\ last'.guard = HTTP_200
        /\ inflight.current.requester_user_id \in DOMAIN users
        /\ inflight.current.permission \notin SingleBits)
          => (last'.status = HTTP_400 /\ users' = users)]_vars

\* C26: the logged-in superuser's grant of READ + WRITE to itself has been
\* served
C26_Witness ==
    /\ last.op = "edit_permission"
    /\ last.guard = HTTP_200
    /\ inflight.current.permission = READ + WRITE
    /\ inflight.current.grant
    /\ inflight.current.requester_user_id = 1

(***************************************************************************)
(* user/services.py: register_user is a plain `def`, which FastAPI runs in *)
(* a thread of its pool, so the handlers of several requests run at the    *)
(* same time.  A handler takes two steps on the store: the query of lines  *)
(* 27-29 and the commit of line 40, which the unique index on users.email  *)
(* (models.py line 16; CRUD/user/models.py line 66) refuses with           *)
(* IntegrityError when a row of that email is there by then.               *)
(***************************************************************************)
RegisterRequests ==
    {[Request("register_user", 0, 0, 0, NoBlob) EXCEPT !.email = e, !.name = n] :
        e \in {"a@x", "root@x"}, n \in {"ann", "bea"}}

\* the rest of the state, which register_user does not touch
frame_register ==
    UNCHANGED <<faces, next_face_id, cached_faces, cache_settle_time, now,
                utc_offset, issued, cache_log, pm, process>>

\* lines 27-32: look the email up; 400 if a row has it
register_user_query(r) ==
    /\ r \in inflight.pending
    /\ frame_register
    /\ UNCHANGED <<users, next_user_id>>
    /\ IF \E i \in DOMAIN users : users[i].email = r.email
       THEN /\ last = Idle
            /\ last' = Resp("register_user", "-", 0, EmptyToken, 0, 0, HTTP_400)
            /\ inflight' = [inflight EXCEPT !.pending = @ \ {r}, !.done = @ \cup {r}]
       ELSE /\ inflight' = [inflight EXCEPT !.pending = @ \ {r},
                                            !.checked = @ \cup {r}]
            /\ UNCHANGED last

\* lines 35-43: hash, add, commit, refresh, return
register_user_commit(r) ==
    /\ r \in inflight.checked
    /\ last = Idle
    /\ frame_register
    /\ inflight' = [inflight EXCEPT !.checked = @ \ {r}, !.done = @ \cup {r}]
    /\ IF \E i \in DOMAIN users : users[i].email = r.email
       THEN /\ last' = Resp("register_user", "-", 0, EmptyToken, 0, 0, HTTP_500)
            /\ UNCHANGED <<users, next_user_id>>
       ELSE /\ next_user_id <= MaxUsers
            /\ users' = Insert(users, next_user_id,
                               [email |-> r.email, name |-> r.name,
                                password_hash |-> Hash("pw"),
                                permissions |-> DEFAULT_PERMISSIONS])
            /\ next_user_id' = next_user_id + 1
            /\ last' = Resp("register_user", "-", next_user_id, EmptyToken, 0, 0,
                            HTTP_200)

NextRegister ==
    \/ \E r \in RegisterRequests : register_user_query(r)
    \/ \E r \in RegisterRequests : register_user_commit(r)
    \/ Reply

\* two or three registrations are sent at the same time
InitRegister ==
    /\ users = (1 :> Superuser)
    /\ next_user_id = 2
    /\ faces = << >>
    /\ next_face_id = 1
    /\ cached_faces = << >>
    /\ cache_settle_time = NegInf
    /\ now = 0
    /\ utc_offset = 0
    /\ issued = {}
    /\ last = Idle
    /\ cache_log = [built_at |-> 0, written |-> FALSE]
    /\ pm = [permissions |-> DEFAULT_PERMISSIONS, call |-> NoCall]
    /\ process = Serving
    /\ \E sent \in SUBSET RegisterRequests :
          /\ Cardinality(sent) \in {2, 3}
          /\ inflight = [NoRequests EXCEPT !.pending = sent]

SpecRegister == InitRegister /\ [][NextRegister]_vars

\* C27: no two stored user records ever share an email, and a register call
\* for an email that a stored record has when the call is answered fails
\* with the 400 "Email already registered." and leaves the store as it was.
C27_DuplicateEmailConflict ==
    [][/\ \A i, j \in DOMAIN users' : users'[i].email = users'[j].email => i = j
       /\ \A r \in inflight'.done \ inflight.done :
             (\E i \in DOMAIN users : users[i].email = r.email)
                => (last'.status = HTTP_400 /\ users' = users)]_vars

\* C27: of two registrations of "a@x" sent at the same time, one is stored
\* and the other has been answered
C27_Witness ==
    /\ \E i \in DOMAIN users : users[i].email = "a@x"
    /\ Cardinality({r \in inflight.done : r.email = "a@x"}) = 2
    /\ last.op = "register_user"
    /\ last.status # HTTP_200

\* C28: get_faces by a caller that may read is rejected with 400 when
\* range_to < range_from; otherwise it succeeds and returns the records that
\* follow the first range_from in newest-first order, at most
\* range_to - range_from + 1 of them, with num_this_page the number returned
\* and num_total the number stored; either way no stored state changes.
C28_PagedListing ==
    [][(Serves({"get_faces"}) /\ Authorized(READ)) =>
          LET range_from == inflight.current.range_from
              range_to == inflight.current.range_to
              page == last'.page
          IN /\ StoreAndCacheKept
             /\ IF range_to < range_from
                THEN last'.status = HTTP_400
                ELSE /\ last'.status = HTTP_200
                     /\ page.num_total = Len(faces)
                     /\ page.num_this_page = Len(page.faces)
                     /\ Len(page.faces) <= range_to - range_from + 1
                     /\ \/ Len(page.faces) = range_to - range_from + 1
                        \/ Len(page.faces) = Len(faces) - range_from
                        \/ (Len(page.faces) = 0 /\ Len(faces) <= range_from)
                     /\ \A k \in 1..Len(page.faces) :
                           page.faces[k] = faces[Len(faces) + 1 - range_from - k]]_vars

\* C28: the logged-in superuser's get_faces of the range 1..1 over a store of
\* two faces has been served
C28_Witness ==
    /\ last.op = "get_faces"
    /\ last.user_id = 1
    /\ issued # {}
    /\ HasBit(users[1].permissions, READ)
    /\ inflight.current.range_from = 1
    /\ inflight.current.range_to = 1
    /\ Len(faces) = 2

\* the endpoints that call _guard_db with a capability
GuardedOps == GuardedUserOps \cup {"upload_face", "get_faces", "update_face",
                                   "delete_face", "compare_face", "find_faces"}

\* the caller S of the request being answered has an unexpired token of its
\* own: the one in the request, or, for a face request, whose schema has no
\* token field, one it keeps
HasOwnToken(S) ==
    IF last'.op \in GuardedUserOps
    THEN Authenticates(last'.token, S, now)
    ELSE \E t \in issued : Authenticates(t, S, now)

\* C29: a guarded request of a stored user U that has an unexpired token of
\* its own is decided by the permissions U's row holds when the request is
\* served, whatever they were when the token was issued: it passes the guard
\* when the row has the required capability and is answered 403 when it has
\* not (so a revocation and a grant by edit_permission bind the next call).
C29_PermissionsFromStore ==
    [][(Serves(GuardedOps) /\ last'.guard # 0 /\ last'.user_id \in DOMAIN users
           /\ HasOwnToken(last'.user_id)) =>
          LET U == last'.user_id
              c == RequiredCapability(last'.op)
          IN IF HasBit(users[U].permissions, c)
             THEN last'.guard = HTTP_200
             ELSE last'.status = HTTP_403]_vars

\* C29, for the endpoints of CRUD/user/services.py alone
C29_UserEndpoints ==
    [][(Serves(GuardedUserOps) /\ last'.guard # 0 /\ last'.user_id \in DOMAIN users
           /\ HasOwnToken(last'.user_id)) =>
          LET U == last'.user_id
              c == RequiredCapability(last'.op)
          IN IF HasBit(users[U].permissions, c)
             THEN last'.guard = HTTP_200
             ELSE last'.status = HTTP_403]_vars

\* C29: the superuser, whose WRITE capability edit_permission has revoked
\* while it kept its token, has sent an upload_face
C29_Witness ==
    /\ last.op = "upload_face"
    /\ last.user_id = 1
    /\ 1 \in DOMAIN users
    /\ ~HasBit(users[1].permissions, WRITE)
    /\ \E t \in issued : Authenticates(t, 1, now)

\* the superuser, whose GRANT_PERMISSION capability edit_permission has
\* revoked, has sent a get_users with the token it had before
C29_RevokedUserEndpoint ==
    /\ last.op = "get_users"
    /\ last.user_id = 1
    /\ 1 \in DOMAIN users
    /\ ~HasBit(users[1].permissions, GRANT_PERMISSION)
    /\ Authenticates(last.token, 1, now)
    /\ last.token \in issued

\* the endpoints whose request names the user it is made for
SubjectOps == GuardedOps \cup {"verify_email", "delete_user", "change_password",
                               "get_user"}

\* C30: a request made as a user S whose row is not in the store never
\* succeeds and changes neither store nor cache, and when it is a guarded
\* request of a caller with an unexpired token of S (as S has one after
\* delete_account removed its row) it is answered 404.
C30_DeletedSubjectNotFound ==
    [][(Serves(SubjectOps) /\ last'.user_id \notin DOMAIN users) =>
          /\ last'.status # HTTP_200
          /\ StoreAndCacheKept
          /\ (last'.op \in GuardedOps /\ last'.guard # 0
                 /\ HasOwnToken(last'.user_id)) => last'.status = HTTP_404]_vars

\* C30, for the endpoints of CRUD/user/services.py alone
C30_UserEndpoints ==
    [][(Serves(SubjectOps \ {"upload_face", "get_faces", "update_face",
                             "delete_face", "compare_face", "find_faces"})
           /\ last'.user_id \notin DOMAIN users) =>
          /\ last'.status # HTTP_200
          /\ StoreAndCacheKept
          /\ (last'.op \in GuardedOps /\ last'.guard # 0
                 /\ HasOwnToken(last'.user_id)) => last'.status = HTTP_404]_vars

\* C30: user 2, whose row delete_account has removed and whose token is not
\* expired, has sent an upload_face
C30_Witness ==
    /\ last.op = "upload_face"
    /\ last.user_id = 2
    /\ 2 \notin DOMAIN users
    /\ \E t \in issued : Authenticates(t, 2, now)

\* user 2, whose row delete_account has removed, has sent a guarded request
\* of the user endpoints with its unexpired token
C30_DeletedUserEndpoint ==
    /\ last.op \in GuardedUserOps
    /\ last.user_id = 2
    /\ 2 \notin DOMAIN users
    /\ Authenticates(last.token, 2, now)
    /\ last.token \in issued

(***************************************************************************)
(* The service in a deployment whose table "users" holds a provisioned     *)
(* superuser, and in one whose table is empty, so that no user holds       *)
(* GRANT_PERMISSION; edit_permission is sent with the operands of the two  *)
(* administrative capabilities and with one out of range.                  *)
(***************************************************************************)
AdminOperands == {DELETE_USERS, GRANT_PERMISSION, PERMISSION_MAX + 1}

NextAdmin ==
    \/ \E e \in Open(Emails) : register_user(e, "pw", "ann")
    \/ \E u \in Open(UserIds) : \E t \in Presentable(u) : verify_email(u, t, FALSE)
    \/ \E u \in Open(UserIds), w \in UserIds : \E h \in Headers(u) : verify_email_super(h, u, w)
    \/ \E v \in Open(Emails \cup {"root@x"}) : login_user("email", v, "pw", TRUE)
    \/ \E u \in Open(UserIds) : \E t \in Presentable(u) : delete_user(u, t)
    \/ \E u \in Open(UserIds) : \E h \in Headers(u) : change_password(h, u, "other")
    \/ \E u \in Open(UserIds) : \E h \in Headers(u) : get_user(h, u)
    \/ \E u \in Open(UserIds) : \E h \in Headers(u) : get_users(h, u, 0, 1)
    \/ \E u \in Open(UserIds) : \E h \in Headers(u) : find_users(h, u)
    \/ \E u \in Open(UserIds), g \in BOOLEAN, w \in UserIds, p \in AdminOperands :
          \E h \in Headers(u) : edit_permission(h, u, g, w, p)
    \/ FaceRequest
    \/ Reply

InitAdmin ==
    /\ \/ Start(1 :> Superuser, 2, DEFAULT_PERMISSIONS)
       \/ Start(<< >>, 1, DEFAULT_PERMISSIONS)
    /\ utc_offset = 0

SpecAdmin == InitAdmin /\ [][NextAdmin]_vars

\* no stored user holds GRANT_PERMISSION
NoGrantHolder(table) ==
    \A u \in DOMAIN table : ~HasBit(table[u].permissions, GRANT_PERMISSION)

\* C31: the permissions of a stored user change only in an edit_permission
\* request that is answered 200 and whose caller's row holds GRANT_PERMISSION
\* when it is served; a row that is added has permissions 15; and from a
\* state in which no user holds GRANT_PERMISSION no step gives any user
\* GRANT_PERMISSION or DELETE_USERS (so an execution that starts without a
\* holder never has one).
C31_PermissionsClosed ==
    [][/\ \A u \in DOMAIN users' :
             IF u \in DOMAIN users
             THEN users'[u].permissions # users[u].permissions =>
                     /\ last'.op = "edit_permission"
                     /\ last'.status = HTTP_200
                     /\ last'.user_id \in DOMAIN users
                     /\ HasBit(users[last'.user_id].permissions, GRANT_PERMISSION)
             ELSE users'[u].permissions = READ + WRITE + DELETE + UPDATE
       /\ NoGrantHolder(users) =>
             \A u \in DOMAIN users' :
                /\ ~HasBit(users'[u].permissions, GRANT_PERMISSION)
                /\ HasBit(users'[u].permissions, DELETE_USERS) =>
                      (u \in DOMAIN users /\ HasBit(users[u].permissions, DELETE_USERS))]_vars

\* C31: in the deployment without a superuser, a registered user with a
\* token of its own has asked edit_permission to grant it GRANT_PERMISSION
\* or DELETE_USERS and was refused
C31_Witness ==
    /\ last.op = "edit_permission"
    /\ last.status = HTTP_403
    /\ 1 \in DOMAIN users
    /\ users[1].email # "root@x"
    /\ NoGrantHolder(users)
    /\ last.user_id \in DOMAIN users
    /\ Authenticates(last.token, last.user_id, now)

\* a state of the deployment with a superuser in which edit_permission has
\* changed permissions: user 2 holds DELETE_USERS
C31_Granted ==
    /\ 2 \in DOMAIN users
    /\ HasBit(users[2].permissions, DELETE_USERS)

\* C32: a compare_face, answered 200 or rejected, leaves the stored face
\* records and the id counter as they were; the cache after it is the cache
\* before it or a projection of the stored records, and a result has one
\* entry for each cached face and none besides, so the uploaded probe is in
\* no result.
C32_MatchStoresNothing ==
    [][Serves({"compare_face"}) =>
          /\ faces' = faces
          /\ next_face_id' = next_face_id
          /\ \/ cached_faces' = cached_faces
             \/ IsProjectionOf(cached_faces', faces)
          /\ Len(last'.desc_scores) = (IF last'.status = HTTP_200
                                       THEN Len(cached_faces') ELSE 0)
          /\ \A i \in DOMAIN last'.desc_scores :
                \E k \in DOMAIN cached_faces' :
                   last'.desc_scores[i] = Pair(last'.blob.feature, cached_faces'[k])]_vars

\* C32: a compare_face has been answered 200 for a probe whose embedding no
\* stored face has, over a store of two faces
C32_Witness ==
    /\ last.op = "compare_face"
    /\ last.status = HTTP_200
    /\ Len(faces) = 2
    /\ Len(last.desc_scores) = 2
    /\ last.blob.feature # 0
    /\ \A i \in DOMAIN faces : faces[i].feature # last.blob.feature

====
